---------------------------- MODULE Spec2Model ----------------------------
(***************************************************************************)
(* Amphitheatre composer: the Playbook reconciler (controller.rs), the     *)
(* finalizer wrapper it runs under, the bootstrap that starts the control  *)
(* loops (mod.rs), and the resolver dispatch (partner.rs).                 *)
(*                                                                         *)
(* One Playbook object is modelled.  `store` is the object as the API      *)
(* server holds it, `cache` is the copy the controller's reflector hands   *)
(* to reconcile (it may lag behind `store`, and the same copy may be       *)
(* handed out more than once).  Only this controller's finalizer marker    *)
(* is modelled; the object is physically removed by the store as soon as   *)
(* it is marked for deletion and carries no marker.                        *)
(***************************************************************************)
EXTENDS Integers, Sequences, FiniteSets, TLC

VARIABLES
    store,      \* the Playbook held by the API server
    cache,      \* the Playbook snapshot the next reconcile receives
    events,     \* number of DeletePlaybook events the recorder accepted (up to MaxEvents)
    ops,        \* external calls issued by the most recent reconcile, in order
    last,       \* what the most recent step was, on what, with what result
    partner,    \* resolver: the input of load (name, credentials, partner)
    resolved,   \* resolver: what load did with it
    boot        \* the bootstrap: its position, its list calls, loops, exit code

vars == <<store, cache, events, ops, last, partner, resolved, boot>>

---------------------------------------------------------------------------
\* Bounds of the model.

\* repos are 1..NumRepos
NumRepos == 3
\* length of the actor list of a created Playbook
MaxInitActors == 2
\* partner references in the actor list of a created Playbook
MaxPartnerRefs == 2
\* external writers stop once the version token reaches this
MaxVersion == 2
\* DeletePlaybook events are counted up to this
MaxEvents == 2

Repos == 1..NumRepos

Range(s) == { s[i] : i \in DOMAIN s }

\* The partner lists of created actors: sequences of repos of length at most
\* n, repeats included.  solve reads a partner list only by inserting its
\* entries into a set, so the lists are taken up to order: non-decreasing.
RECURSIVE PartnerLists(_)
PartnerLists(n) ==
    IF n = 0 THEN { <<>> }
    ELSE PartnerLists(n - 1)
         \cup { q \in { Append(s, x) : s \in PartnerLists(n - 1), x \in Repos } :
                  /\ Len(q) = n
                  /\ \A i \in 1..(n - 1) : q[i] <= q[i + 1] }

\* all orders in which a set can be iterated
Orders(S) ==
    { f \in [1..Cardinality(S) -> S] : \A i, j \in 1..Cardinality(S) : f[i] = f[j] => i = j }

---------------------------------------------------------------------------
\* Data model.

PlaybookStates == { "Pending", "Solving", "Ready", "Running" }
\* "None" stands for a Playbook whose status has not been reported
StatusValues == PlaybookStates \cup { "None" }

InitialActorName == "web"

\* An actor a created Playbook may list: its repo and its partner repos.
\* (description, image, path, reference, commit and environment are carried
\* along unread by the reconciler and are left out.)
InitialActor(repo, partners) ==
    [name |-> InitialActorName, repo |-> repo, partners |-> partners]

\* read_partner as it would be if the placeholder named a partner of its own
read_partner_WithPartner(url) ==
    [name |-> "amp-example-nodejs", repo |-> url, partners |-> << (url % NumRepos) + 1 >>]

\* read_partner: the placeholder actor built for a missing repo
read_partner(url) ==
    [name |-> "amp-example-nodejs", repo |-> url, partners |-> <<>>]

\* Actor lists of created Playbooks with n actors and at most `refs` partner
\* references in all.  Repos are unique within a created Playbook's list; up
\* to renaming of repos, the i-th actor's repo is i.
RECURSIVE InitialActorLists(_, _)
InitialActorLists(n, refs) ==
    IF n = 0 THEN { <<>> }
    ELSE UNION {
           { Append(l, InitialActor(n, p)) : l \in InitialActorLists(n - 1, refs - Len(p)) }
           : p \in PartnerLists(refs) }

AllInitialActorLists ==
    UNION { InitialActorLists(n, MaxPartnerRefs) : n \in 0..MaxInitActors }

\* deleted from the store: marked for deletion and no finalizer marker left
Gone(pb) == pb.deleting /\ ~pb.finalizer

---------------------------------------------------------------------------
\* Store writes (crate::resources::playbook and crate::resources::actor).
\* Every write is checked against a version token: it is rejected, and
\* changes nothing, unless the stored version is the one the reconcile holds,
\* which is the snapshot's version advanced by the `own` writes the same
\* reconcile has already made.

\* playbook::patch_status: set status.state of the stored object
patch_status(st, state) ==
    [st EXCEPT !.status = state,
               !.version = IF st.status = state THEN @ ELSE @ + 1]

\* actor::add: append one actor to the stored spec.actors
add(st, actor) ==
    [st EXCEPT !.actors = Append(@, actor), !.version = @ + 1]

\* the stored object was changed by another writer since the snapshot
Conflict(self, st, own) == st.version # self.version + own

\* the k-th external call of a reconcile, a store write, succeeds unless the
\* call fails, the object is gone or the version token does not match
WriteOk(self, st, k, failAt, own) ==
    /\ k # failAt
    /\ ~Gone(st)
    /\ ~Conflict(self, st, own)

\* one entry of `ops`
Op(op, actor, repo, state, ok) ==
    [op |-> op, actor |-> actor, repo |-> repo, state |-> state, ok |-> ok]

---------------------------------------------------------------------------
\* Playbook::start .. Playbook::cleanup.  Each takes the snapshot `self`, the
\* stored object, and failAt: the index of the external call of this
\* reconcile that fails (0: none).  Each yields the stored object afterwards,
\* the calls issued, the events published and whether it returned Ok.

\* start as it would be if it patched the wrong state
start_PatchesReady(self, st, failAt) ==
    LET ok == WriteOk(self, st, 1, failAt, 0)
    IN  [store |-> IF ok THEN patch_status(st, "Ready") ELSE st,
         ops |-> << Op("patch_status", 0, 0, "Ready", ok) >>,
         published |-> 0,
         ok |-> ok]

\* start as it would be if it patched with the token of the stored object as
\* it is now, not with the snapshot's
start_TokenOfStore(self, st, failAt) ==
    LET ok == WriteOk(st, st, 1, failAt, 0)
    IN  [store |-> IF ok THEN patch_status(st, "Solving") ELSE st,
         ops |-> << Op("patch_status", 0, 0, "Solving", ok) >>,
         published |-> 0,
         ok |-> ok]

start(self, st, failAt) ==
    LET ok == WriteOk(self, st, 1, failAt, 0)
    IN  [store |-> IF ok THEN patch_status(st, "Solving") ELSE st,
         ops |-> << Op("patch_status", 0, 0, "Solving", ok) >>,
         published |-> 0,
         ok |-> ok]

\* exists as it would be if it were left empty
exists_Empty(self) == {}

\* the repos of the actors of the snapshot
exists(self) == { self.actors[i].repo : i \in DOMAIN self.actors }

\* fetches as it would be without the test against `exists`
fetches_NoExistsFilter(self) ==
    UNION { Range(self.actors[i].partners) : i \in DOMAIN self.actors }

\* partner repos of the snapshot's actors that no actor of the snapshot has
fetches(self) ==
    UNION { { repo \in Range(self.actors[i].partners) : repo \notin exists(self) }
            : i \in DOMAIN self.actors }

\* solve as it would be with the test of fetches.is_empty() inverted
solve_InvertedReadyCheck(self, st, failAt, order) ==
    LET n == Len(order)
        firstBad == IF Gone(st) \/ Conflict(self, st, 0) THEN 1 ELSE failAt
        nOk == IF firstBad \in 1..n THEN firstBad - 1 ELSE n
        nTried == IF firstBad \in 1..n THEN firstBad ELSE n
        RECURSIVE Added(_)
        Added(k) == IF k = 0 THEN st ELSE add(Added(k - 1), read_partner(order[k]))
        adds == [k \in 1..nTried |-> Op("add", 0, order[k], "", k <= nOk)]
        readyOk == nOk = n /\ failAt # n + 1
    IN  IF n = 0
        THEN [store |-> st, ops |-> <<>>, published |-> 0, ok |-> TRUE]
        ELSE [store |-> IF readyOk THEN patch_status(Added(nOk), "Ready") ELSE Added(nOk),
              ops |-> IF nOk = n
                      THEN Append(adds, Op("patch_status", 0, 0, "Ready", readyOk))
                      ELSE adds,
              published |-> 0,
              ok |-> readyOk]

\* order: the order in which the set fetches(self) is iterated.  The k-th add
\* is the k-th external call; the first that fails ends the pass.
solve(self, st, failAt, order) ==
    LET n == Len(order)
        firstBad == IF Gone(st) \/ Conflict(self, st, 0) THEN 1 ELSE failAt
        nOk == IF firstBad \in 1..n THEN firstBad - 1 ELSE n
        nTried == IF firstBad \in 1..n THEN firstBad ELSE n
        RECURSIVE Added(_)
        Added(k) == IF k = 0 THEN st ELSE add(Added(k - 1), read_partner(order[k]))
        adds == [k \in 1..nTried |-> Op("add", 0, order[k], "", k <= nOk)]
        readyOk == WriteOk(self, st, 1, failAt, 0)
    IN  IF n = 0
        THEN [store |-> IF readyOk THEN patch_status(st, "Ready") ELSE st,
              ops |-> << Op("patch_status", 0, 0, "Ready", readyOk) >>,
              published |-> 0,
              ok |-> readyOk]
        ELSE [store |-> Added(nOk),
              ops |-> adds,
              published |-> 0,
              ok |-> nOk = n]

\* run as it would be if it deployed an actor before building it
run_DeployFirst(self, st, failAt) ==
    LET n == 2 * Len(self.actors)
        nTried == IF failAt \in 1..n THEN failAt ELSE n
    IN  [store |-> st,
         ops |-> [k \in 1..nTried |->
                    Op(IF k % 2 = 1 THEN "deploy" ELSE "build",
                       (k + 1) \div 2, self.actors[(k + 1) \div 2].repo, "", k # failAt)],
         published |-> 0,
         ok |-> failAt \notin 1..n]

\* run as it would be if it went on to the next call after a failing one
run_GoesOnAfterErr(self, st, failAt) ==
    LET n == 2 * Len(self.actors)
    IN  [store |-> st,
         ops |-> [k \in 1..n |->
                    Op(IF k % 2 = 1 THEN "build" ELSE "deploy",
                       (k + 1) \div 2, self.actors[(k + 1) \div 2].repo, "", k # failAt)],
         published |-> 0,
         ok |-> failAt \notin 1..n]

\* build is call 2i-1 and deploy call 2i for the i-th actor
run(self, st, failAt) ==
    LET n == 2 * Len(self.actors)
        nTried == IF failAt \in 1..n THEN failAt ELSE n
    IN  [store |-> st,
         ops |-> [k \in 1..nTried |->
                    Op(IF k % 2 = 1 THEN "build" ELSE "deploy",
                       (k + 1) \div 2, self.actors[(k + 1) \div 2].repo, "", k # failAt)],
         published |-> 0,
         ok |-> failAt \notin 1..n]

\* cleanup as it would be if it returned Err whatever publish returned
cleanup_AlwaysErr(self, st, failAt) ==
    LET ok == failAt # 1
    IN  [store |-> st,
         ops |-> << Op("publish", 0, 0, "DeletePlaybook", ok) >>,
         published |-> IF ok THEN 1 ELSE 0,
         ok |-> FALSE]

\* cleanup as it would be without the `?` on publish
cleanup_IgnoresPublishErr(self, st, failAt) ==
    LET ok == failAt # 1
    IN  [store |-> st,
         ops |-> << Op("publish", 0, 0, "DeletePlaybook", ok) >>,
         published |-> IF ok THEN 1 ELSE 0,
         ok |-> TRUE]

cleanup(self, st, failAt) ==
    LET ok == failAt # 1
    IN  [store |-> st,
         ops |-> << Op("publish", 0, 0, "DeletePlaybook", ok) >>,
         published |-> IF ok THEN 1 ELSE 0,
         ok |-> ok]

\* Playbook::reconcile as it would be if a Ready Playbook were started again
PlaybookReconcile_ReadyRestarts(self, st, failAt, order) ==
    IF self.status # "None"
    THEN IF self.status = "Pending" \/ self.status = "Ready" THEN start(self, st, failAt)
         ELSE IF self.status = "Solving" THEN solve(self, st, failAt, order)
         ELSE IF self.status = "Running" THEN run(self, st, failAt)
         ELSE [store |-> st, ops |-> <<>>, published |-> 0, ok |-> TRUE]
    ELSE [store |-> st, ops |-> <<>>, published |-> 0, ok |-> TRUE]

\* Playbook::reconcile as it would be without the branch for Solving
PlaybookReconcile_NoSolve(self, st, failAt, order) ==
    IF self.status # "None"
    THEN IF self.status = "Pending" THEN start(self, st, failAt)
         ELSE IF self.status = "Running" THEN run(self, st, failAt)
         ELSE [store |-> st, ops |-> <<>>, published |-> 0, ok |-> TRUE]
    ELSE [store |-> st, ops |-> <<>>, published |-> 0, ok |-> TRUE]

\* Playbook::reconcile as it would be if it promoted a Ready Playbook itself
PlaybookReconcile_AutoRun(self, st, failAt, order) ==
    IF self.status # "None"
    THEN IF self.status = "Pending" THEN start(self, st, failAt)
         ELSE IF self.status = "Solving" THEN solve(self, st, failAt, order)
         ELSE IF self.status = "Running" THEN run(self, st, failAt)
         ELSE LET ok == WriteOk(self, st, 1, failAt, 0)
              IN  [store |-> IF ok THEN patch_status(st, "Running") ELSE st,
                   ops |-> << Op("patch_status", 0, 0, "Running", ok) >>,
                   published |-> 0,
                   ok |-> ok]
    ELSE [store |-> st, ops |-> <<>>, published |-> 0, ok |-> TRUE]

\* Playbook::reconcile as it would be if a Pending Playbook were solved at once
PlaybookReconcile_PendingSolves(self, st, failAt, order) ==
    IF self.status # "None"
    THEN IF self.status = "Pending" \/ self.status = "Solving"
         THEN solve(self, st, failAt, order)
         ELSE IF self.status = "Running" THEN run(self, st, failAt)
         ELSE [store |-> st, ops |-> <<>>, published |-> 0, ok |-> TRUE]
    ELSE [store |-> st, ops |-> <<>>, published |-> 0, ok |-> TRUE]

\* Playbook::reconcile: the dispatch on status
PlaybookReconcile(self, st, failAt, order) ==
    IF self.status # "None"
    THEN IF self.status = "Pending" THEN start(self, st, failAt)
         ELSE IF self.status = "Solving" THEN solve(self, st, failAt, order)
         ELSE IF self.status = "Running" THEN run(self, st, failAt)
         ELSE [store |-> st, ops |-> <<>>, published |-> 0, ok |-> TRUE]
    ELSE [store |-> st, ops |-> <<>>, published |-> 0, ok |-> TRUE]


---------------------------------------------------------------------------
\* kube::runtime::finalizer::finalizer, as reconcile calls it: the dispatch on
\* the snapshot's marker and deletion mark.  The marker patches are JSON
\* patches that first test the stored finalizer list against the snapshot's.
\* err is "None" or the variant of the finalizer's error.

finalizer(self, st, failAt, order) ==
    IF self.finalizer /\ ~self.deleting
    THEN \* Event::Apply
         LET r == PlaybookReconcile(self, st, failAt, order)
         IN  [store |-> r.store, ops |-> r.ops, published |-> r.published,
              err |-> IF r.ok THEN "None" ELSE "ApplyFailed"]
    ELSE IF self.finalizer /\ self.deleting
    THEN \* Event::Cleanup, then the patch that removes the marker
         LET c == cleanup(self, st, failAt)
             removed == failAt # 2 /\ st.finalizer
         IN  IF ~c.ok
             THEN [store |-> c.store, ops |-> c.ops, published |-> c.published,
                   err |-> "CleanupFailed"]
             ELSE [store |-> IF removed
                             THEN [c.store EXCEPT !.finalizer = FALSE, !.version = @ + 1]
                             ELSE c.store,
                   ops |-> Append(c.ops, Op("remove_finalizer", 0, 0, "", removed)),
                   published |-> c.published,
                   err |-> IF removed THEN "None" ELSE "RemoveFinalizer"]
    ELSE IF ~self.finalizer /\ ~self.deleting
    THEN \* the patch that adds the marker; no Apply in this reconcile
         LET added == failAt # 1 /\ ~Gone(st) /\ ~st.finalizer
         IN  [store |-> IF added
                        THEN [st EXCEPT !.finalizer = TRUE, !.version = @ + 1]
                        ELSE st,
              ops |-> << Op("add_finalizer", 0, 0, "", added) >>,
              published |-> 0,
              err |-> IF added THEN "None" ELSE "AddFinalizer"]
    ELSE \* no marker, being deleted: nothing to do
         [store |-> st, ops |-> <<>>, published |-> 0, err |-> "None"]

\* seconds after which a failed reconcile is requeued
RequeueSecs == 60

\* Action::await_change()
await_change == [requeue |-> FALSE, after |-> 0]

\* error_policy as it would be if it waited for the next change
error_policy_AwaitChange(error) == await_change

\* error_policy: whatever the error, requeue after the fixed delay
error_policy(error) == [requeue |-> TRUE, after |-> RequeueSecs]

\* reconcile as it would be without the check for an empty actor list
reconcile_NoEmptyCheck(self, st, failAt, order) ==
    LET f == finalizer(self, st, failAt, order)
    IN  [store |-> f.store, ops |-> f.ops, published |-> f.published,
         error |-> IF f.err = "None" THEN "None" ELSE "FinalizerError",
         cause |-> f.err,
         action |-> IF f.err = "None" THEN await_change
                    ELSE error_policy("FinalizerError")]

\* reconcile (the controller's entry point) followed, on Err, by error_policy
reconcile(self, st, failAt, order) ==
    IF self.actors = <<>>
    THEN [store |-> st, ops |-> <<>>, published |-> 0,
          error |-> "EmptyActorsError", cause |-> "None",
          action |-> error_policy("EmptyActorsError")]
    ELSE LET f == finalizer(self, st, failAt, order)
         IN  [store |-> f.store, ops |-> f.ops, published |-> f.published,
              error |-> IF f.err = "None" THEN "None" ELSE "FinalizerError",
              cause |-> f.err,
              action |-> IF f.err = "None" THEN await_change
                         ELSE error_policy("FinalizerError")]

---------------------------------------------------------------------------
\* The resolver (partner.rs).

ActorNames == { "web", "lib" }
CredentialSets == { "anonymous", "token" }
Versions == { "1.0", "2.0" }
References == { "main", "v1" }
\* Option<String>: <<>> is None, <<x>> is Some(x)
RegistryNames == { <<>>, <<"catalog">>, <<"hub">>, <<"ftp">>, <<"Catalog">>, <<"">> }

Partners ==
    [tag : { "Registry" }, registry : RegistryNames, version : Versions, reference : { "" }]
    \cup [tag : { "Repository" }, registry : { <<>> }, version : { "" }, reference : References]
    \cup [tag : { "Other" }, registry : { <<>> }, version : { "" }, reference : { "" }]

\* one call of a loader, with the arguments it was given
LoaderCall(loader, args) == [loader |-> loader, args |-> args]

\* what load returns after calling a loader: the loader's own result
Loaded(call, loaderOk) ==
    [calls |-> << call >>,
     result |-> IF loaderOk THEN "CharacterSpec" ELSE "LoaderError",
     arg |-> ""]

\* load as it would be if an absent registry name defaulted to "hub"
load_DefaultHub(credentials, name, p, loaderOk) ==
    IF p.tag = "Registry"
    THEN LET registry == IF p.registry = <<>> THEN "hub" ELSE p.registry[1]
         IN  IF registry = "catalog"
             THEN Loaded(LoaderCall("load_from_catalog", <<credentials, name, p.version>>),
                         loaderOk)
             ELSE IF registry = "hub"
             THEN Loaded(LoaderCall("load_from_cluster", <<name>>), loaderOk)
             ELSE [calls |-> <<>>, result |-> "UnknownCharacterRegistry", arg |-> registry]
    ELSE IF p.tag = "Repository"
    THEN Loaded(LoaderCall("load_from_source", <<credentials, p.reference>>), loaderOk)
    ELSE [calls |-> <<>>, result |-> "UnsupportedPartner", arg |-> ""]

\* load: the dispatch on the partner.  loaderOk: whether the loader that is
\* called (if any) returns Ok.
load(credentials, name, p, loaderOk) ==
    IF p.tag = "Registry"
    THEN LET registry == IF p.registry = <<>> THEN "catalog" ELSE p.registry[1]
         IN  IF registry = "catalog"
             THEN Loaded(LoaderCall("load_from_catalog", <<credentials, name, p.version>>),
                         loaderOk)
             ELSE IF registry = "hub"
             THEN Loaded(LoaderCall("load_from_cluster", <<name>>), loaderOk)
             ELSE [calls |-> <<>>, result |-> "UnknownCharacterRegistry", arg |-> registry]
    ELSE IF p.tag = "Repository"
    THEN Loaded(LoaderCall("load_from_source", <<credentials, p.reference>>), loaderOk)
    ELSE [calls |-> <<>>, result |-> "UnsupportedPartner", arg |-> ""]

---------------------------------------------------------------------------
\* The bootstrap (composer::run).

\* one list call: the kind listed, the limit of its ListParams, its outcome
ListCall(kind, limit, ok) == [kind |-> kind, limit |-> limit, ok |-> ok]

\* the bootstrap before its first call
NotBooted == [pc |-> "list_playbook", calls |-> <<>>, loops |-> {}, exit |-> -1]

\* list_checked as it would be if a failing list call were only logged
list_checked_LogsOnly(b, kind, next, ok) ==
    [b EXCEPT !.calls = Append(@, ListCall(kind, 1, ok)), !.pc = next]

\* `if let Err(e) = api.list(&ListParams::default().limit(1)).await { ..
\* std::process::exit(1) }`: on Ok the bootstrap goes on to `next`
list_checked(b, kind, next, ok) ==
    IF ok
    THEN [b EXCEPT !.calls = Append(@, ListCall(kind, 1, TRUE)), !.pc = next]
    ELSE [b EXCEPT !.calls = Append(@, ListCall(kind, 1, FALSE)),
                   !.pc = "exited", !.exit = 1]

\* both controllers built and polled by select!
start_loops(b) == [b EXCEPT !.pc = "running", !.loops = { "playbook", "actor" }]

\* the bootstrap after both checks succeeded
Booted ==
    start_loops(list_checked(list_checked(NotBooted, "Playbook", "list_actor", TRUE),
                             "Actor", "start", TRUE))

---------------------------------------------------------------------------
\* The state machine.

\* load has not been called
NoResolve == [calls |-> <<>>, result |-> "none", arg |-> ""]
\* no resolver input
NoPartner == [name |-> "", credentials |-> "", partner |-> [tag |-> "none"]]

\* `last` after a step that is not a reconcile
NotReconcile(st) ==
    [kind |-> "external", pre |-> st, error |-> "None", cause |-> "None",
     action |-> await_change]

Init ==
    /\ store \in [actors : AllInitialActorLists, status : { "None", "Pending" },
                  finalizer : BOOLEAN, deleting : { FALSE }, version : { 1 }]
    /\ cache = store
    /\ events = 0
    /\ ops = <<>>
    /\ last = NotReconcile(store)
    /\ partner = NoPartner
    /\ resolved = NoResolve
    /\ boot = Booted

\* the number of external calls a reconcile of snapshot `self` issues when
\* none of them fails
NumCalls(self) ==
    IF self.actors = <<>> THEN 0
    ELSE IF ~self.finalizer THEN (IF self.deleting THEN 0 ELSE 1)
    ELSE IF self.deleting THEN 2
    ELSE IF self.status = "Pending" THEN 1
    ELSE IF self.status = "Solving"
         THEN (IF fetches(self) = {} THEN 1 ELSE Cardinality(fetches(self)))
    ELSE IF self.status = "Running" THEN 2 * Len(self.actors)
    ELSE 0

\* The controller runs reconcile on the snapshot in its cache; the failAt-th
\* external call of the reconcile fails (0: none does).
ReconcileWith(failAt) ==
    /\ ~Gone(cache)
    /\ \E order \in Orders(fetches(cache)) :
         LET r == reconcile(cache, store, failAt, order)
         IN  /\ store' = r.store
             /\ events' = IF events + r.published <= MaxEvents
                           THEN events + r.published ELSE MaxEvents
             /\ ops' = r.ops
             /\ last' = [kind |-> "reconcile", pre |-> store, error |-> r.error,
                         cause |-> r.cause, action |-> r.action]
    /\ UNCHANGED <<cache, partner, resolved, boot>>

Reconcile == \E failAt \in 0..NumCalls(cache) : ReconcileWith(failAt)

\* The watch delivers the stored object to the controller's cache.
WatchDeliver ==
    /\ cache # store
    /\ cache' = store
    /\ last' = NotReconcile(store)
    /\ ops' = <<>>
    /\ UNCHANGED <<store, events, partner, resolved, boot>>

\* the states external writers set: the first report of a status, start, stop
ExternalStates == { "Pending", "Running", "Ready" }

\* An external writer (an operator) patches the status.
ExternalPatchStatus ==
    /\ ~Gone(store)
    /\ store.version < MaxVersion
    /\ \E state \in ExternalStates :
         /\ state # store.status
         /\ store' = patch_status(store, state)
    /\ last' = NotReconcile(store')
    /\ ops' = <<>>
    /\ UNCHANGED <<cache, events, partner, resolved, boot>>

\* PlaybookService::delete: the store marks the object for deletion.
Delete ==
    /\ ~store.deleting
    /\ store' = [store EXCEPT !.deleting = TRUE, !.version = @ + 1]
    /\ last' = NotReconcile(store')
    /\ ops' = <<>>
    /\ UNCHANGED <<cache, events, partner, resolved, boot>>

Next ==
    \/ Reconcile
    \/ WatchDeliver
    \/ ExternalPatchStatus
    \/ Delete

Spec == Init /\ [][Next]_vars

---------------------------------------------------------------------------
\* The reconciler left to itself: a Pending Playbook with actors, no external
\* writer, no failing call.  Every store write is delivered by the watch and
\* every delivery is followed by a reconcile.

LiveInit ==
    /\ Init
    /\ store.status = "Pending"
    /\ store.actors # <<>>

ReconcileOk == ReconcileWith(0)

LiveNext ==
    \/ ReconcileOk
    \/ WatchDeliver

LiveSpec ==
    /\ LiveInit
    /\ [][LiveNext]_vars
    /\ WF_vars(ReconcileOk)
    /\ WF_vars(WatchDeliver)

---------------------------------------------------------------------------
\* The controller's scheduling of reconciles.  last.kind is the position of
\* the object in the controller: "external" when a change or a delivery has
\* made a reconcile due, "reconcile" when a reconcile has returned (and
\* last.action says whether a requeue is pending), "requeued" when the delay
\* of a pending requeue has passed and the reconcile is due again.  Any
\* external call may fail, any number of times.

\* The delay of Action::requeue has passed: the object is due again.
Requeue ==
    /\ last.kind = "reconcile"
    /\ last.action.requeue
    /\ last' = [last EXCEPT !.kind = "requeued"]
    /\ UNCHANGED <<store, cache, events, ops, partner, resolved, boot>>

\* a reconcile runs only when the object is due
RetryReconcile ==
    /\ last.kind # "reconcile"
    /\ Reconcile

RetryNext ==
    \/ RetryReconcile
    \/ Requeue
    \/ WatchDeliver
    \/ Delete

\* The Playbook as the controller first sees it: Pending, or already promoted
\* to Running by an operator.
RetryInit ==
    /\ store \in [actors : AllInitialActorLists,
                  status : { "Pending", "Running" },
                  finalizer : BOOLEAN, deleting : { FALSE }, version : { 1 }]
    /\ cache = store
    /\ events = 0
    /\ ops = <<>>
    /\ last = NotReconcile(store)
    /\ partner = NoPartner
    /\ resolved = NoResolve
    /\ boot = Booted

\* a reconcile is due and the object is there to be reconciled: RetryReconcile
\* is enabled, and so is RetryReconcileOk
Due == last.kind # "reconcile" /\ ~Gone(cache)

\* The requeue timer fires, the watch delivers, and a due reconcile is run:
\* weak fairness of Requeue, of WatchDeliver and of RetryReconcile, the last
\* with ENABLED <<RetryReconcile>>_vars written out as Due.
RetrySpec ==
    /\ RetryInit
    /\ [][RetryNext]_vars
    /\ WF_vars(Requeue)
    /\ WF_vars(WatchDeliver)
    /\ ([]<>(~Due) \/ []<><<RetryReconcile>>_vars)

\* a due reconcile in which no external call fails
RetryReconcileOk ==
    /\ last.kind # "reconcile"
    /\ ReconcileOk

\* RetrySpec where, in addition, calls do not fail for ever: of the reconciles
\* that become due again and again, one runs with no failing call (strong
\* fairness of RetryReconcileOk, ENABLED written out as Due).
CleanupSpec ==
    /\ RetrySpec
    /\ (<>[](~Due) \/ []<><<RetryReconcileOk>>_vars)

---------------------------------------------------------------------------
\* The process from its start: the bootstrap, then the Playbook control loop.

BootInit ==
    /\ store \in [actors : AllInitialActorLists, status : { "None", "Pending" },
                  finalizer : BOOLEAN, deleting : { FALSE }, version : { 1 }]
    /\ cache = store
    /\ events = 0
    /\ ops = <<>>
    /\ last = NotReconcile(store)
    /\ partner = NoPartner
    /\ resolved = NoResolve
    /\ boot = NotBooted

ListPlaybooks ==
    /\ boot.pc = "list_playbook"
    /\ \E ok \in BOOLEAN : boot' = list_checked(boot, "Playbook", "list_actor", ok)
    /\ UNCHANGED <<store, cache, events, ops, last, partner, resolved>>

ListActors ==
    /\ boot.pc = "list_actor"
    /\ \E ok \in BOOLEAN : boot' = list_checked(boot, "Actor", "start", ok)
    /\ UNCHANGED <<store, cache, events, ops, last, partner, resolved>>

StartLoops ==
    /\ boot.pc = "start"
    /\ boot' = start_loops(boot)
    /\ UNCHANGED <<store, cache, events, ops, last, partner, resolved>>

\* the Playbook loop runs reconciles once it has been started
LoopReconcile ==
    /\ "playbook" \in boot.loops
    /\ Reconcile

LoopWatchDeliver ==
    /\ "playbook" \in boot.loops
    /\ WatchDeliver

BootNext ==
    \/ ListPlaybooks
    \/ ListActors
    \/ StartLoops
    \/ LoopReconcile
    \/ LoopWatchDeliver

BootSpec == BootInit /\ [][BootNext]_vars

---------------------------------------------------------------------------
\* The resolver on its own: one call of load on each input.

NoPlaybook ==
    [actors |-> <<>>, status |-> "None", finalizer |-> FALSE, deleting |-> FALSE,
     version |-> 1]

LoadInit ==
    /\ partner \in [name : ActorNames, credentials : CredentialSets, partner : Partners]
    /\ resolved = NoResolve
    /\ store = NoPlaybook
    /\ cache = NoPlaybook
    /\ events = 0
    /\ ops = <<>>
    /\ last = NotReconcile(NoPlaybook)
    /\ boot = Booted

Load ==
    /\ resolved = NoResolve
    /\ \E loaderOk \in BOOLEAN :
         resolved' = load(partner.credentials, partner.name, partner.partner, loaderOk)
    /\ UNCHANGED <<store, cache, events, ops, last, partner, boot>>

LoadNext == Load

LoadSpec == LoadInit /\ [][LoadNext]_vars

---------------------------------------------------------------------------
\* Properties.  After a Reconcile step `cache` is the snapshot the reconcile
\* was given, last.pre the stored object before it and `store` the stored
\* object after it.

Reconciled == last.kind = "reconcile"

\* the reconcile reached Event::Apply: the snapshot has actors, carries the
\* marker and is not marked for deletion
Applied == Reconciled /\ cache.actors # <<>> /\ cache.finalizer /\ ~cache.deleting

StatusWrites == { i \in DOMAIN ops : ops[i].op = "patch_status" }
ActorWrites == { i \in DOMAIN ops : ops[i].op = "add" }

\* C1: a reconcile of a Playbook with an empty actor list, whatever its
\* status, marker and deletion mark, returns EmptyActorsError, leaves the
\* stored object as it was and issues no external call (no marker patch, no
\* status patch, no append, no event, no build or deploy).
C1_EmptyActorsNoMutation ==
    (Reconciled /\ cache.actors = <<>>)
        => /\ last.error = "EmptyActorsError"
           /\ store = last.pre
           /\ ops = <<>>

\* an empty Playbook that carries the marker and is marked for deletion has
\* been reconciled
C1_Witness ==
    /\ Reconciled
    /\ cache.actors = <<>>
    /\ cache.finalizer
    /\ cache.deleting
    /\ cache.status = "Running"
    /\ last.error = "EmptyActorsError"

\* C2 as stated: a reconcile that returns Ok of a Pending Playbook with
\* actors, with or without the marker, leaves status Solving and the actor
\* list unchanged.
C2_PendingAlwaysSolving ==
    (Reconciled /\ last.error = "None" /\ cache.status = "Pending" /\ cache.actors # <<>>)
        => /\ store.status = "Solving"
           /\ store.actors = last.pre.actors

\* C2 amended: a reconcile that returns Ok of a Pending Playbook with actors
\* that carries the marker and is not marked for deletion leaves status
\* Solving and the actor list unchanged, by one status patch; if the Playbook
\* carries no marker, the reconcile adds the marker and leaves status and
\* actors as they were.
C2_PendingWithMarkerSolving ==
    /\ (Applied /\ last.error = "None" /\ cache.status = "Pending")
          => /\ store.status = "Solving"
             /\ store.actors = last.pre.actors
             /\ ops = << Op("patch_status", 0, 0, "Solving", TRUE) >>
    /\ (Reconciled /\ last.error = "None" /\ cache.status = "Pending"
          /\ cache.actors # <<>> /\ ~cache.finalizer)
          => /\ store.status = last.pre.status
             /\ store.actors = last.pre.actors
             /\ store.finalizer
             /\ StatusWrites = {}

\* a Pending Playbook with the marker has been reconciled and is Solving
C2_Witness ==
    /\ Applied
    /\ last.error = "None"
    /\ cache.status = "Pending"
    /\ last.pre.status = "Pending"
    /\ store.status = "Solving"

\* the repos some actor of pb names as partner and no actor of pb has
Missing(pb) ==
    { r \in Repos :
        /\ \E i \in DOMAIN pb.actors : \E j \in DOMAIN pb.actors[i].partners :
              pb.actors[i].partners[j] = r
        /\ \A k \in DOMAIN pb.actors : pb.actors[k].repo # r }

C4_SolveConvergedReady ==
    (Applied /\ last.error = "None" /\ cache.status = "Solving" /\ Missing(cache) = {})
        => /\ store.status = "Ready"
           /\ store.actors = last.pre.actors
           /\ ops = << Op("patch_status", 0, 0, "Ready", TRUE) >>

\* a solve pass has made Ready a Playbook in which two actors name each other
C4_Witness ==
    /\ Applied
    /\ last.error = "None"
    /\ cache.status = "Solving"
    /\ store.status = "Ready"
    /\ \E i, j \in DOMAIN cache.actors :
          /\ i # j
          /\ cache.actors[j].repo \in Range(cache.actors[i].partners)
          /\ cache.actors[i].repo \in Range(cache.actors[j].partners)

\* C5: a reconcile of a Ready Playbook writes neither status nor actors: the
\* stored status and the stored actor list are as before; and whatever
\* snapshot a reconcile is given, a Playbook that is Ready in the store is
\* Ready, with the same actor list, after it.
C5_ReadyIsNoOp ==
    /\ (Reconciled /\ cache.status = "Ready")
          => /\ store.status = last.pre.status
             /\ store.actors = last.pre.actors
             /\ StatusWrites = {}
             /\ ActorWrites = {}
    /\ (Reconciled /\ last.pre.status = "Ready")
          => /\ store.status = "Ready"
             /\ store.actors = last.pre.actors

\* a Playbook that solve has extended and made Ready has been reconciled again
C5_Witness ==
    /\ Applied
    /\ cache = last.pre
    /\ cache.status = "Ready"
    /\ store.status = "Ready"
    /\ \E i \in DOMAIN store.actors : store.actors[i] = read_partner(store.actors[i].repo)
    /\ ops = <<>>

\* C7: the only status writes of a reconcile are Solving, for a Pending
\* snapshot, and Ready, for a Solving snapshot; a reconcile of a Ready, Running
\* or status-less Playbook writes no status; a reconcile changes the stored
\* status only from Pending to Solving or from Solving to Ready.
C7_ReconcilerNeverRuns ==
    Reconciled
        => /\ \A i \in StatusWrites :
                \/ ops[i].state = "Solving" /\ cache.status = "Pending"
                \/ ops[i].state = "Ready" /\ cache.status = "Solving"
           /\ cache.status \in { "Ready", "Running", "None" } => StatusWrites = {}
           /\ store.status # last.pre.status
                => \/ last.pre.status = "Pending" /\ store.status = "Solving"
                   \/ last.pre.status = "Solving" /\ store.status = "Ready"

\* a Ready Playbook has been reconciled, and it is still Ready
C7_Witness ==
    /\ Applied
    /\ last.error = "None"
    /\ cache.status = "Ready"
    /\ store.status = "Ready"

\* the calls run issues for the first n actors of pb when none fails
BuildsAndDeploys(pb, n) ==
    [k \in 1..(2 * n) |->
        Op(IF k % 2 = 1 THEN "build" ELSE "deploy",
           (k + 1) \div 2, pb.actors[(k + 1) \div 2].repo, "", TRUE)]

\* C8: a reconcile that returns Ok of a Running Playbook with N actors issues
\* exactly build(1), deploy(1), .., build(N), deploy(N), whatever earlier
\* reconciles did, and leaves the stored object as it was.
C8_RunBuildsThenDeploysAll ==
    (Applied /\ last.error = "None" /\ cache.status = "Running")
        => /\ ops = BuildsAndDeploys(cache, Len(cache.actors))
           /\ store = last.pre

\* a Running Playbook with two actors has been reconciled
C8_Witness ==
    /\ Applied
    /\ last.error = "None"
    /\ cache.status = "Running"
    /\ Len(cache.actors) = 2
    /\ Len(ops) = 4

\* C9 as stated: one Playbook has at most one delete request, so at most one
\* DeletePlaybook event is ever published, and exactly one has been published
\* when the marker is released.
C9_ExactlyOneCleanupEvent ==
    /\ events <= 1
    /\ (Reconciled /\ last.pre.finalizer /\ ~store.finalizer) => events = 1

\* C6: with reconciles and watch deliveries fair and no failing call, a
\* Pending Playbook with actors eventually is Ready, and whenever it is Ready
\* every partner repo of every actor is the repo of some actor.
C6_EventuallyReadyClosed ==
    /\ <>(store.status = "Ready")
    /\ [](store.status = "Ready" => Missing(store) = {})

\* a Playbook that was created with a missing repo is Ready
C6_Witness ==
    /\ store.status = "Ready"
    /\ Missing(store) = {}
    /\ \E i \in DOMAIN store.actors : store.actors[i] = read_partner(store.actors[i].repo)

\* C10: load takes the path the table gives for the partner, calls at most
\* one loader, once, and returns that loader's result or the table's error.
C10_LoadDispatchTable ==
    resolved # NoResolve
        => LET p == partner.partner
               name == partner.name
               credentials == partner.credentials
               catalog == LoaderCall("load_from_catalog", <<credentials, name, p.version>>)
               cluster == LoaderCall("load_from_cluster", <<name>>)
               source == LoaderCall("load_from_source", <<credentials, p.reference>>)
               loaderResult == resolved.result \in { "CharacterSpec", "LoaderError" }
           IN  /\ Len(resolved.calls) <= 1
               /\ (p.tag = "Registry" /\ p.registry \in { <<>>, <<"catalog">> })
                     => resolved.calls = << catalog >> /\ loaderResult
               /\ (p.tag = "Registry" /\ p.registry = <<"hub">>)
                     => resolved.calls = << cluster >> /\ loaderResult
               /\ (p.tag = "Registry" /\ p.registry \notin { <<>>, <<"catalog">>, <<"hub">> })
                     => /\ resolved.calls = <<>>
                        /\ resolved.result = "UnknownCharacterRegistry"
                        /\ resolved.arg = p.registry[1]
               /\ p.tag = "Repository"
                     => resolved.calls = << source >> /\ loaderResult
               /\ p.tag \notin { "Registry", "Repository" }
                     => resolved.calls = <<>> /\ resolved.result = "UnsupportedPartner"

\* load has been called on a Registry partner without a registry name
C10_Witness ==
    /\ partner.partner.tag = "Registry"
    /\ partner.partner.registry = <<>>
    /\ Len(resolved.calls) = 1
    /\ resolved.calls[1].loader = "load_from_catalog"

\* the most recent reconcile returned Err
Failed == Reconciled /\ last.error # "None"

\* C11: a reconcile that returns Err, whatever the error, is answered by one
\* requeue after 60 seconds (and one that returns Ok by none); the stored
\* object is then what the calls of the reconcile that succeeded made of it,
\* so it is the object as it was when none succeeded; and after a failed
\* reconcile the object becomes due and is reconciled again, unless it has
\* been removed from the store.
C11_ErrorAlwaysRequeued ==
    /\ [](Reconciled
            => /\ last.error # "None"
                    => last.action = [requeue |-> TRUE, after |-> 60]
               /\ last.error = "None" => ~last.action.requeue)
    /\ []((Failed /\ \A i \in DOMAIN ops : ~ops[i].ok) => store = last.pre)
    /\ Failed ~> ~Reconciled
    /\ ~Reconciled ~> (Reconciled \/ Gone(cache))

\* a reconcile of a Running Playbook failed in the build of its second actor,
\* and the delay of its requeue has passed
C11_Witness ==
    /\ last.kind = "requeued"
    /\ last.error = "FinalizerError"
    /\ last.cause = "ApplyFailed"
    /\ last.action = [requeue |-> TRUE, after |-> 60]
    /\ cache.status = "Running"
    /\ Len(ops) = 3
    /\ ~ops[3].ok

\* C12 as stated: the error reconcile returns is FinalizerError when adding or
\* removing the marker failed, and is not FinalizerError when the body of
\* Apply or Cleanup failed (a status patch, an append, a build, a deploy, the
\* publishing of the event).
C12_BodyErrorsNotFinalizerError ==
    Reconciled
        => /\ last.cause \in { "AddFinalizer", "RemoveFinalizer" }
                => last.error = "FinalizerError"
           /\ last.cause \in { "ApplyFailed", "CleanupFailed" }
                => last.error \notin { "None", "FinalizerError" }

\* the snapshot the reconcile was given is not the stored object's version
Stale == Reconciled /\ cache.version # last.pre.version

C14_BootChecksBeforeLoops ==
    /\ \E n \in 0..2 :
          /\ Len(boot.calls) = n
          /\ \A i \in 1..n :
                /\ boot.calls[i].kind = << "Playbook", "Actor" >>[i]
                /\ boot.calls[i].limit = 1
                /\ i < n => boot.calls[i].ok
    /\ (\E i \in DOMAIN boot.calls : ~boot.calls[i].ok)
          <=> (boot.pc = "exited" /\ boot.exit = 1)
    /\ boot.pc = "exited" => boot.loops = {} /\ ~Reconciled
    /\ (boot.loops # {} \/ Reconciled)
          => /\ boot.loops = { "playbook", "actor" }
             /\ Len(boot.calls) = 2
             /\ \A i \in 1..2 : boot.calls[i].ok
    /\ boot.pc # "exited" => boot.exit = -1

\* the Playbook list succeeded, the Actor list failed and the process exited
C14_Witness ==
    /\ boot.pc = "exited"
    /\ boot.exit = 1
    /\ Len(boot.calls) = 2
    /\ boot.calls[1].ok
    /\ ~boot.calls[2].ok
    /\ boot.loops = {}

\* no two actors of pb have the same repo
UniqueRepos(pb) ==
    \A i, j \in DOMAIN pb.actors : pb.actors[i].repo = pb.actors[j].repo => i = j

\* C15: the actors of a Playbook created with pairwise distinct repos have
\* pairwise distinct repos in the store after every step, whatever snapshots
\* the reconciles were given (the same Solving snapshot twice, a snapshot
\* taken before an earlier append).
C15_ReposStayUnique ==
    UniqueRepos(store)

\* a solve pass given again the snapshot from which the missing repo was
\* already appended: its append was turned down
C15_Witness ==
    /\ Stale
    /\ cache.status = "Solving"
    /\ Missing(cache) # {}
    /\ last.pre.status = "Solving"
    /\ \A r \in Missing(cache) : \E i \in DOMAIN last.pre.actors : last.pre.actors[i].repo = r
    /\ ops # <<>>
    /\ ops[1].op = "add"
    /\ ~ops[1].ok
    /\ store = last.pre

\* s is the beginning of t
IsPrefix(s, t) == Len(s) <= Len(t) /\ SubSeq(t, 1, Len(s)) = s

\* C16: a reconcile leaves the stored actor list as it was or longer, with the
\* previous list as its beginning; it is longer only after a reconcile that
\* reached Apply on a Solving snapshot; reconciles of a Pending, Ready,
\* Running or status-less snapshot, and cleanup, leave it as it was.
C16_ActorListAppendOnly ==
    Reconciled
        => /\ IsPrefix(last.pre.actors, store.actors)
           /\ store.actors # last.pre.actors => Applied /\ cache.status = "Solving"
           /\ ActorWrites # {} => Applied /\ cache.status = "Solving"

\* the solve pass of a Playbook with two actors has appended a third
C16_Witness ==
    /\ Applied
    /\ cache.status = "Solving"
    /\ Len(last.pre.actors) = 2
    /\ Len(store.actors) = 3
    /\ SubSeq(store.actors, 1, 2) = last.pre.actors
    /\ store.actors[3].repo \in Missing(cache)

\* the stored Playbook is marked for deletion and carries the marker
Deleting(pb) == pb.deleting /\ pb.finalizer

\* C17 as stated: with reconciles delivered and calls not failing for ever, a
\* Playbook marked for deletion while it carries the marker is eventually
\* removed from the store after a cleanup event, whatever its status and
\* actor list, the empty list included.
C17_DeletionAlwaysCompletes ==
    Deleting(store) ~> (Gone(store) /\ events >= 1)

\* C17 amended: the same for a Playbook with a non-empty actor list, whatever
\* its status; a Playbook with an empty actor list that carries the marker
\* keeps it for ever.
C17_DeletionCompletesWithActors ==
    /\ (Deleting(store) /\ store.actors # <<>>) ~> (Gone(store) /\ events >= 1)
    /\ []((Deleting(store) /\ store.actors = <<>>) => [](Deleting(store) /\ events = 0))

\* a Running Playbook with actors has been deleted: cleanup has published the
\* event and the marker is released
C17_Witness ==
    /\ Reconciled
    /\ Deleting(last.pre)
    /\ last.pre.status = "Running"
    /\ Gone(store)
    /\ events = 1
    /\ ops = << Op("publish", 0, 0, "DeletePlaybook", TRUE),
                Op("remove_finalizer", 0, 0, "", TRUE) >>

\* the reconcile ran cleanup and publishing the event failed
PublishFailed ==
    /\ Reconciled
    /\ ops # <<>>
    /\ ops[1].op = "publish"
    /\ ~ops[1].ok

\* C18: a cleanup reconcile whose publish fails returns Err, issues no patch
\* of the marker and leaves the stored object as it was, marker included; it
\* is requeued, and a cleanup is attempted again unless the object has gone
\* meanwhile; and a reconcile releases the marker only after its own publish
\* succeeded.
C18_PublishFailureKeepsMarker ==
    /\ [](PublishFailed
            => /\ last.error # "None"
               /\ last.cause = "CleanupFailed"
               /\ Len(ops) = 1
               /\ store = last.pre
               /\ last.action = [requeue |-> TRUE, after |-> 60])
    /\ []((Reconciled /\ last.pre.finalizer /\ ~store.finalizer)
            => /\ Len(ops) = 2
               /\ ops[1] = Op("publish", 0, 0, "DeletePlaybook", TRUE)
               /\ ops[2] = Op("remove_finalizer", 0, 0, "", TRUE)
               /\ events >= 1)
    /\ (PublishFailed /\ Deleting(store))
          ~> (~Reconciled /\ <>(Reconciled /\ ops # <<>> /\ ops[1].op = "publish"))

\* the publish of a cleanup failed, the marker is still there, and the delay
\* of the requeue has passed
C18_Witness ==
    /\ last.kind = "requeued"
    /\ last.cause = "CleanupFailed"
    /\ ops = << Op("publish", 0, 0, "DeletePlaybook", FALSE) >>
    /\ Deleting(store)
    /\ events = 0

\* the reconcile ran `run` and one of its calls failed
RunFailed == Applied /\ cache.status = "Running" /\ last.error # "None"

\* the calls of `run` up to the n-th, of which the n-th failed
FailedRun(pb, n) ==
    [k \in 1..n |-> [BuildsAndDeploys(pb, Len(pb.actors))[k] EXCEPT !.ok = k # n]]

\* C19: a reconcile of a Running Playbook in which a build or deploy fails
\* issues the calls in order up to the failing one and none after it (after a
\* failed build of the i-th actor: not its deploy), leaves the stored object
\* as it was and returns Err, which is answered by a requeue; the reconcile
\* that runs when the requeue is due starts from build of the first actor and
\* repeats the calls that had succeeded.
C19_RunAbortsAtFirstFailure ==
    /\ [](RunFailed
            => /\ \E n \in 1..(2 * Len(cache.actors)) : ops = FailedRun(cache, n)
               /\ ops[Len(ops)].op = "build" => Len(ops) = 2 * ops[Len(ops)].actor - 1
               /\ store = last.pre
               /\ last.cause = "ApplyFailed"
               /\ last.action = [requeue |-> TRUE, after |-> 60])
    /\ [][(last.kind = "requeued" /\ last.cause = "ApplyFailed"
              /\ cache.status = "Running" /\ last'.kind = "reconcile")
            => /\ ops' # <<>>
               /\ ops'[1].op = "build"
               /\ ops'[1].actor = 1
               /\ \A k \in DOMAIN ops' :
                     k < Len(ops) => [ops'[k] EXCEPT !.ok = TRUE] = ops[k]
               /\ Len(ops') >= Len(ops) \/ ~ops'[Len(ops')].ok]_vars

\* a reconcile of a Running Playbook with two actors failed in the deploy of
\* the second, after three calls that succeeded
C19_Witness ==
    /\ RunFailed
    /\ Len(cache.actors) = 2
    /\ ops = FailedRun(cache, 4)
    /\ store = last.pre

\* the actors of pb that are placeholders of read_partner
Placeholders(pb) ==
    { i \in DOMAIN pb.actors : pb.actors[i] = read_partner(pb.actors[i].repo) }

\* C20: with no failing call and no other writer, every actor a solve pass
\* appends is read_partner's placeholder for a repo missing in the snapshot,
\* with no partners; so a solve pass that appends leaves no repo missing, it
\* is the only pass that appends (the snapshot of a pass that appends holds
\* no placeholder), and the solve pass on a snapshot that holds a placeholder
\* patches Ready.
C20_OneLevelExpansion ==
    (Applied /\ cache.status = "Solving")
        => /\ \A i \in (Len(last.pre.actors) + 1)..Len(store.actors) :
                /\ store.actors[i] = read_partner(store.actors[i].repo)
                /\ store.actors[i].partners = <<>>
                /\ store.actors[i].repo \in Missing(cache)
           /\ (last.error = "None" /\ ActorWrites # {})
                => /\ Missing(store) = {}
                   /\ Placeholders(cache) = {}
           /\ (last.error = "None" /\ Placeholders(cache) # {})
                => /\ store.status = "Ready"
                   /\ ActorWrites = {}

\* the second solve pass of a Playbook, on the snapshot with the two
\* placeholders the first pass appended, has patched Ready
C20_Witness ==
    /\ Applied
    /\ last.error = "None"
    /\ cache.status = "Solving"
    /\ Cardinality(Placeholders(cache)) = 2
    /\ cache = last.pre
    /\ store.status = "Ready"
    /\ store.actors = cache.actors

============================================================================
